---- MODULE Spec2Model ----
(***************************************************************************)
(* Model of the particle simulation strategies (CPU, compute shader,       *)
(* transform feedback) and of the application controller that owns the     *)
(* active strategy.                                                        *)
(*                                                                         *)
(* f32 values are fixed-point integers: the value x is the integer x*One,  *)
(* and NaN is a sentinel.  A position is a generator spawn point plus a    *)
(* fixed-point displacement, because the spawn points themselves come from *)
(* trigonometry (Hollow) or from a seeded random stream (Filled).          *)
(***************************************************************************)
EXTENDS Integers, Sequences, FiniteSets, TLC

VARIABLES
    simulation,   \* the strategy object (Box<dyn ParticleSimulation>)
    app,          \* the ParticleApp fields that the controller reads and writes
    tf,           \* a TransformFeedbackSimulation
    last_written, \* transform feedback: the half written most recently
    last_read,    \* transform feedback: the half the last recorded pass read
    last_op,      \* the call that produced this state, with its arguments
    gpu_work,     \* the GPU objects that call created, the commands and the
                  \* queue writes it recorded
    panicked,     \* a slice or a buffer write went out of range
    updates,      \* number of update calls made on the strategy (bounded)
    frames,       \* number of application frames so far (bounded)
    fragment,     \* a FragmentParticleSystem
    draws,        \* the particle draws queued and not yet executed
    release       \* the release build tool: its process and the config file

vars == <<simulation, app, tf, last_written, last_read, last_op, gpu_work,
          panicked, updates, frames, fragment, draws, release>>

-----------------------------------------------------------------------------
(* Bounds of the model *)

One == 100
MaxCount == 2
MaxUpdates == 1
MaxFrames == 3

\* the release build tool has not been started
NoRelease == <<>>
MaxSweep == 2

-----------------------------------------------------------------------------
(* f32 arithmetic, fixed point with unit One *)

NaN == 0 - (One * One * One)

F(num, den) == (num * One) \div den

Abs(a) == IF a < 0 THEN 0 - a ELSE a
Max(a, b) == IF a > b THEN a ELSE b
Min(a, b) == IF a < b THEN a ELSE b

TruncDiv(a, b) ==
    IF (a >= 0) = (b > 0) THEN Abs(a) \div Abs(b) ELSE 0 - (Abs(a) \div Abs(b))

IsNaN(a) == a = NaN

FAdd(a, b) == IF IsNaN(a) \/ IsNaN(b) THEN NaN ELSE a + b
FSub(a, b) == IF IsNaN(a) \/ IsNaN(b) THEN NaN ELSE a - b
FMul(a, b) == IF IsNaN(a) \/ IsNaN(b) THEN NaN ELSE TruncDiv(a * b, One)
\* x / 0 only occurs as 0 / 0 with the inputs of this model
FDiv(a, b) ==
    IF IsNaN(a) \/ IsNaN(b) \/ b = 0 THEN NaN ELSE TruncDiv(a * One, b)
FLt(a, b) == ~IsNaN(a) /\ ~IsNaN(b) /\ a < b
\* f32::min and f32::max return the other operand when one is NaN
FMin(a, b) == IF IsNaN(a) THEN b ELSE IF IsNaN(b) THEN a ELSE IF a < b THEN a ELSE b
FMax(a, b) == IF IsNaN(a) THEN b ELSE IF IsNaN(b) THEN a ELSE IF a > b THEN a ELSE b


Vec3Zero == <<0, 0, 0>>
Vec3NaN == <<NaN, NaN, NaN>>
VAdd(u, v) == <<FAdd(u[1], v[1]), FAdd(u[2], v[2]), FAdd(u[3], v[3])>>
VSub(u, v) == <<FSub(u[1], v[1]), FSub(u[2], v[2]), FSub(u[3], v[3])>>
VScale(v, s) == <<FMul(v[1], s), FMul(v[2], s), FMul(v[3], s)>>
\* sqrt(x*x + y*y + z*z), rounded down; it lies between the largest
\* component and the sum of the components
VLength(v) ==
    IF IsNaN(v[1]) \/ IsNaN(v[2]) \/ IsNaN(v[3]) THEN NaN
    ELSE LET s == v[1] * v[1] + v[2] * v[2] + v[3] * v[3]
             lo == Max(Abs(v[1]), Max(Abs(v[2]), Abs(v[3])))
             hi == Abs(v[1]) + Abs(v[2]) + Abs(v[3])
         IN  CHOOSE n \in lo..hi : n * n <= s /\ (n + 1) * (n + 1) > s
\* glam: v * (1 / length), NaN in every component for the zero vector
VNormalize(v) ==
    LET len == VLength(v)
    IN  <<FDiv(v[1], len), FDiv(v[2], len), FDiv(v[3], len)>>

-----------------------------------------------------------------------------
(* Particle records and the initial-state generator *)

SphereGeneration == {"Hollow", "Filled"}
SimulationMethod == {"Cpu", "ComputeShader"}

\* A point: the generator's spawn point plus a displacement.
Position(spawn, off) == [spawn |-> spawn, off |-> off]
Origin == Position(<<"Origin", 0, 0>>, Vec3Zero)

\* A color is determined by the arguments of the formula that produced it.
Color(kind, position, norm, max_dist) ==
    [kind |-> kind, position |-> position, norm |-> norm, max_dist |-> max_dist]

\* norm_pos = (pos / sphere_radius + 1) * 0.5, a function of the spawn position
SpawnColor(pos) == Color("spawn", pos, 0, 0)

Particle(position, velocity, initial_color) ==
    [position |-> position, velocity |-> velocity,
     color |-> initial_color, initial_color |-> initial_color]

\* Hollow: y = 1 - (i / (count.max(1) - 1)) * 2, theta = golden_angle * i.
\* i = 0 is the north pole and i = count - 1 the south pole for every count;
\* count = 1 divides 0.0 by 0.0 and every coordinate is NaN.
HollowPosition(i, count) ==
    LET ratio == FDiv(F(i, 1), F(Max(count, 1) - 1, 1))
    IN  IF IsNaN(ratio) THEN Position(<<"Hollow", i, 0>>, Vec3NaN)
        ELSE IF ratio = 0 THEN Position(<<"Hollow", 0, 1>>, Vec3Zero)
        ELSE IF ratio = One THEN Position(<<"Hollow", 1, 1>>, Vec3Zero)
        ELSE Position(<<"Hollow", i, count - 1>>, Vec3Zero)

\* Filled: particle i is made of draws 3i, 3i+1, 3i+2 of the stream seeded 69.
FilledPosition(i) == Position(<<"Filled", i, 0>>, Vec3Zero)

generate_initial_particles(count, mode) ==
    [k \in 1..count |->
        LET pos == IF mode = "Hollow" THEN HollowPosition(k - 1, count)
                   ELSE FilledPosition(k - 1)
        IN  Particle(pos, Vec3Zero, SpawnColor(pos))]

\* the first n entries of a sequence
Take(s, n) == [k \in 1..n |-> s[k]]

-----------------------------------------------------------------------------
(* GPU buffers: the particle records a buffer holds, in order *)

create_buffer_init(contents) == contents

\* queue.write_buffer(buffer, 0, data)
write_buffer(buffer, data) ==
    [k \in 1..Len(buffer) |-> IF k <= Len(data) THEN data[k] ELSE buffer[k]]

WriteFits(buffer, data) == Len(data) <= Len(buffer)

-----------------------------------------------------------------------------
(* Simulation parameters *)

SimParams(delta_time, gravity, color_mode, mouse_force, mouse_radius, is_mouse_dragging, damping, max_dist_for_color, mouse_position) ==
    [delta_time |-> delta_time, gravity |-> gravity, color_mode |-> color_mode,
     mouse_force |-> mouse_force, mouse_radius |-> mouse_radius,
     is_mouse_dragging |-> is_mouse_dragging, damping |-> damping,
     max_dist_for_color |-> max_dist_for_color,
     mouse_position |-> mouse_position]

\* mouse_pos - position.  The mouse is aimed at a spawn point; a particle
\* around another spawn point is further away than 2 * mouse_radius.
FarAway == <<F(100, 1), 0, 0>>
Direction(mouse_pos, position) ==
    IF mouse_pos.spawn = position.spawn THEN VSub(mouse_pos.off, position.off)
    ELSE FarAway

\* A faulty closure body: the position is advanced by the velocity the
\* particle had before gravity and the mouse force were applied
UpdateParticleExplicit(particle, params) ==
    LET delta_time == params.delta_time
        v0 == particle.velocity
        v1 == <<v0[1], FSub(v0[2], FMul(params.gravity, delta_time)), v0[3]>>
        dir == Direction(params.mouse_position, particle.position)
        dist == VLength(dir)
        two_r == FMul(params.mouse_radius, F(2, 1))
        base == FSub(F(1, 1), FDiv(dist, two_r))
        force_factor == FMul(FMul(base, base), F(2, 1))
        force == VScale(VScale(VNormalize(dir), params.mouse_force), force_factor)
        v2 == IF params.is_mouse_dragging > 0 /\ FLt(dist, two_r)
              THEN VAdd(v1, VScale(force, delta_time))
              ELSE v1
        position == Position(particle.position.spawn,
                             VAdd(particle.position.off, VScale(v0, delta_time)))
        velocity == VScale(v2, params.damping)
        color ==
            CASE params.color_mode = 1 ->
                    Color("speed", Origin,
                          FMin(FDiv(VLength(velocity), F(5, 1)), F(1, 1)), 0)
              [] params.color_mode = 2 ->
                    Color("dist", position, 0,
                          FMax(params.max_dist_for_color, F(1, 100)))
              [] OTHER -> particle.color
    IN  [position |-> position, velocity |-> velocity, color |-> color,
         initial_color |-> particle.initial_color]

\* The body of the per-particle closure
UpdateParticle(particle, params) ==
    LET delta_time == params.delta_time
        v0 == particle.velocity
        \* velocity.y -= gravity * delta_time
        v1 == <<v0[1], FSub(v0[2], FMul(params.gravity, delta_time)), v0[3]>>
        dir == Direction(params.mouse_position, particle.position)
        dist == VLength(dir)
        two_r == FMul(params.mouse_radius, F(2, 1))
        base == FSub(F(1, 1), FDiv(dist, two_r))
        force_factor == FMul(FMul(base, base), F(2, 1))
        force == VScale(VScale(VNormalize(dir), params.mouse_force), force_factor)
        v2 == IF params.is_mouse_dragging > 0 /\ FLt(dist, two_r)
              THEN VAdd(v1, VScale(force, delta_time))
              ELSE v1
        \* position += velocity * delta_time
        position == Position(particle.position.spawn,
                             VAdd(particle.position.off, VScale(v2, delta_time)))
        \* velocity *= damping
        velocity == VScale(v2, params.damping)
        color ==
            CASE params.color_mode = 1 ->
                    Color("speed", Origin,
                          FMin(FDiv(VLength(velocity), F(5, 1)), F(1, 1)), 0)
              [] params.color_mode = 2 ->
                    Color("dist", position, 0,
                          FMax(params.max_dist_for_color, F(1, 100)))
              [] OTHER -> particle.color
    IN  [position |-> position, velocity |-> velocity, color |-> color,
         initial_color |-> particle.initial_color]

-----------------------------------------------------------------------------
(* What a call on a strategy yields: the strategy after the call, whether  *)
(* the call panicked, and the GPU work it recorded.                        *)

Result(sim, panic, work) == [sim |-> sim, panic |-> panic, work |-> work]

-----------------------------------------------------------------------------
(* CpuParticleSimulation *)

CpuNew(initial_particle_count, generation_mode) ==
    LET particles == generate_initial_particles(initial_particle_count,
                                                generation_mode)
    IN  [method |-> "Cpu",
         particles |-> particles,
         particle_buffer |-> create_buffer_init(particles),
         particle_count |-> initial_particle_count,
         paused |-> FALSE,
         generation_mode |-> generation_mode]

\* A faulty update: the particles are integrated on the host but the bulk
\* write to the buffer is left out
CpuUpdateNoUpload(sim, params) ==
    IF sim.particle_count > Len(sim.particles)
    THEN Result(sim, TRUE, <<>>)
    ELSE Result([sim EXCEPT !.particles =
                    [k \in 1..Len(sim.particles) |->
                        IF k <= sim.particle_count
                        THEN UpdateParticle(sim.particles[k], params)
                        ELSE sim.particles[k]]],
                FALSE, <<>>)

\* The paused check at the top of update is commented out in the source.
CpuUpdate(sim, params) ==
    IF sim.particle_count > Len(sim.particles)
    THEN Result(sim, TRUE, <<>>)
    ELSE
        LET particles == [k \in 1..Len(sim.particles) |->
                            IF k <= sim.particle_count
                            THEN UpdateParticle(sim.particles[k], params)
                            ELSE sim.particles[k]]
            data == Take(particles, sim.particle_count)
        IN  IF ~WriteFits(sim.particle_buffer, data)
            THEN Result([sim EXCEPT !.particles = particles], TRUE, <<>>)
            ELSE Result([sim EXCEPT !.particles = particles,
                                    !.particle_buffer = write_buffer(@, data)],
                        FALSE, <<"write_buffer">>)

\* A faulty resize_buffer: growing regenerates the whole array instead of
\* appending to it
CpuResizeBufferRegenerating(sim, new_count, generation_mode) ==
    LET s1 == [sim EXCEPT !.generation_mode = generation_mode]
    IN  IF new_count = sim.particle_count
        THEN Result(s1, FALSE, <<>>)
        ELSE
            LET grow == new_count > Len(sim.particles)
                particles ==
                    IF grow
                    THEN generate_initial_particles(new_count, generation_mode)
                    ELSE sim.particles
                buffer == IF grow THEN create_buffer_init(particles)
                          ELSE sim.particle_buffer
                s2 == [s1 EXCEPT !.particles = particles,
                                 !.particle_buffer = buffer,
                                 !.particle_count = new_count]
            IN  Result([s2 EXCEPT !.particle_buffer =
                             write_buffer(@, Take(particles, new_count))],
                       FALSE, <<"write_buffer">>)

\* A faulty resize_buffer: the host array is never extended, so a count
\* above its length slices out of range
CpuResizeBufferNoAppend(sim, new_count, generation_mode) ==
    LET s1 == [sim EXCEPT !.generation_mode = generation_mode]
    IN  IF new_count = sim.particle_count
        THEN Result(s1, FALSE, <<>>)
        ELSE
            LET s2 == [s1 EXCEPT !.particle_count = new_count]
            IN  IF new_count > Len(sim.particles)
                   \/ ~WriteFits(sim.particle_buffer,
                                 Take(sim.particles, new_count))
                THEN Result(s2, TRUE, <<>>)
                ELSE Result([s2 EXCEPT !.particle_buffer =
                                 write_buffer(@, Take(sim.particles, new_count))],
                            FALSE, <<"write_buffer">>)

\* A faulty resize_buffer: the host array is extended but the buffer is
\* not replaced by a larger one
CpuResizeBufferKeepsBuffer(sim, new_count, generation_mode) ==
    LET s1 == [sim EXCEPT !.generation_mode = generation_mode]
    IN  IF new_count = sim.particle_count
        THEN Result(s1, FALSE, <<>>)
        ELSE
            LET grow == new_count > Len(sim.particles)
                additional_count == new_count - Len(sim.particles)
                particles ==
                    IF grow
                    THEN sim.particles \o
                         generate_initial_particles(additional_count,
                                                    generation_mode)
                    ELSE sim.particles
                s2 == [s1 EXCEPT !.particles = particles,
                                 !.particle_count = new_count]
            IN  IF ~WriteFits(sim.particle_buffer, Take(particles, new_count))
                THEN Result(s2, TRUE, <<>>)
                ELSE Result([s2 EXCEPT !.particle_buffer =
                                 write_buffer(@, Take(particles, new_count))],
                            FALSE, <<"write_buffer">>)

CpuResizeBuffer(sim, new_count, generation_mode) ==
    LET s1 == [sim EXCEPT !.generation_mode = generation_mode]
    IN  IF new_count = sim.particle_count
        THEN Result(s1, FALSE, <<>>)
        ELSE
            LET grow == new_count > Len(sim.particles)
                additional_count == new_count - Len(sim.particles)
                particles ==
                    IF grow
                    THEN sim.particles \o
                         generate_initial_particles(additional_count,
                                                    generation_mode)
                    ELSE sim.particles
                buffer == IF grow THEN create_buffer_init(particles)
                          ELSE sim.particle_buffer
                s2 == [s1 EXCEPT !.particles = particles,
                                 !.particle_buffer = buffer,
                                 !.particle_count = new_count]
                created == IF grow THEN <<"create_buffer_init">> ELSE <<>>
            IN  IF new_count > Len(particles)
                   \/ ~WriteFits(buffer, Take(particles, new_count))
                THEN Result(s2, TRUE, created)
                ELSE Result([s2 EXCEPT !.particle_buffer =
                                 write_buffer(@, Take(particles, new_count))],
                            FALSE, created \o <<"write_buffer">>)

\* A faulty reset: the host array is regenerated but never uploaded
CpuResetNoUpload(sim, generation_mode) ==
    Result([sim EXCEPT !.generation_mode = generation_mode,
                       !.particles = generate_initial_particles(
                                         sim.particle_count, generation_mode)],
           FALSE, <<>>)

CpuReset(sim, generation_mode) ==
    LET particles == generate_initial_particles(sim.particle_count,
                                                generation_mode)
        s1 == [sim EXCEPT !.generation_mode = generation_mode,
                          !.particles = particles]
    IN  IF ~WriteFits(sim.particle_buffer, particles)
        THEN Result(s1, TRUE, <<>>)
        ELSE Result([s1 EXCEPT !.particle_buffer = write_buffer(@, particles)],
                    FALSE, <<"write_buffer">>)

-----------------------------------------------------------------------------
(* ComputeParticleSimulation.  Its particles live in the buffer.  The      *)
(* generation mode that the ParticleSimulation trait and its callers pass  *)
(* is handed to the generator.                                             *)

\* compute.wgsl: one invocation per record of the storage buffer, the
\* per-particle formula of the CPU strategy
ComputeKernel(buffer, params) ==
    [k \in 1..Len(buffer) |-> UpdateParticle(buffer[k], params)]

ComputeNew(initial_particle_count, generation_mode) ==
    [method |-> "ComputeShader",
     particle_buffer |-> create_buffer_init(
         generate_initial_particles(initial_particle_count, generation_mode)),
     particle_count |-> initial_particle_count,
     paused |-> FALSE]

\* update has no paused check: it writes the parameters and dispatches.
ComputeUpdate(sim, params) ==
    Result([sim EXCEPT !.particle_buffer = ComputeKernel(@, params)],
           FALSE, <<"write_buffer", "dispatch_workgroups">>)

ComputeResizeBuffer(sim, new_count, generation_mode) ==
    IF new_count = sim.particle_count
    THEN Result(sim, FALSE, <<>>)
    ELSE Result([sim EXCEPT
                    !.particle_buffer = create_buffer_init(
                        generate_initial_particles(new_count, generation_mode)),
                    !.particle_count = new_count],
                FALSE, <<"create_buffer_init", "create_bind_group">>)

ComputeReset(sim, generation_mode) ==
    Result([sim EXCEPT !.particle_buffer = create_buffer_init(
                generate_initial_particles(sim.particle_count, generation_mode))],
           FALSE, <<"create_buffer_init", "create_bind_group">>)

-----------------------------------------------------------------------------
(* The ParticleSimulation trait object *)

SimNew(method, count, mode) ==
    IF method = "Cpu" THEN CpuNew(count, mode) ELSE ComputeNew(count, mode)

SimUpdate(sim, params) ==
    IF sim.method = "Cpu" THEN CpuUpdate(sim, params)
    ELSE ComputeUpdate(sim, params)

SimResizeBuffer(sim, new_count, mode) ==
    IF sim.method = "Cpu" THEN CpuResizeBuffer(sim, new_count, mode)
    ELSE ComputeResizeBuffer(sim, new_count, mode)

SimReset(sim, mode) ==
    IF sim.method = "Cpu" THEN CpuReset(sim, mode) ELSE ComputeReset(sim, mode)

set_paused(sim, paused) == [sim EXCEPT !.paused = paused]

get_particle_count(sim) == sim.particle_count
is_paused(sim) == sim.paused
get_method(sim) == sim.method
get_particle_buffer(sim) == sim.particle_buffer

\* The active particles the strategy holds: the host array for the CPU
\* strategy, the buffer for the compute strategy.
ActiveParticles(sim) ==
    IF sim.method = "Cpu" THEN Take(sim.particles, sim.particle_count)
    ELSE Take(sim.particle_buffer, sim.particle_count)

-----------------------------------------------------------------------------
(* Calls on one strategy through the ParticleSimulation trait *)

NoParams == SimParams(0, 0, 0, 0, 0, 0, 0, 0, Origin)

\* old_count is the particle count before a resize_buffer call, 0 otherwise
Op(op, old_count, new_count, mode, flag, params) ==
    [op |-> op, old_count |-> old_count, new_count |-> new_count,
     mode |-> mode, flag |-> flag, params |-> params]

NoApp == <<>>
NoTf == <<>>
NoFragment == <<>>

\* The parameter blocks the calls are made with: delta_time 1, damping 1,
\* max_dist_for_color 50, mouse released; no gravity with color mode 0, or
\* gravity 1 with color mode 1.
ParamChoices ==
    {SimParams(F(1, 1), gc[1], gc[2], F(2, 1), F(1, 1), 0, F(1, 1), F(50, 1),
               Origin) :
        gc \in {<<0, 0>>, <<F(1, 1), 1>>}}

InitWith(method) ==
    /\ simulation \in {SimNew(method, c, g) :
                         c \in 0..MaxCount, g \in SphereGeneration}
    /\ app = NoApp
    /\ tf = NoTf
    /\ last_written = 0
    /\ last_read = 0
    /\ last_op = Op("new", 0, simulation.particle_count, "", FALSE, NoParams)
    /\ gpu_work = <<>>
    /\ panicked = FALSE
    /\ updates = 0
    /\ frames = 0
    /\ release = NoRelease
    /\ fragment = NoFragment
    /\ draws = <<>>

Init == InitWith("Cpu")
ComputeInit == InitWith("ComputeShader")

Update ==
    /\ ~panicked
    /\ updates < MaxUpdates
    /\ \E params \in ParamChoices :
          LET r == SimUpdate(simulation, params)
          IN  /\ simulation' = r.sim
              /\ panicked' = r.panic
              /\ gpu_work' = r.work
              /\ last_op' = Op("update", 0, 0, "", FALSE, params)
    /\ updates' = updates + 1
    /\ UNCHANGED <<app, tf, last_written, last_read, frames, fragment, draws, release>>

ResizeBuffer ==
    /\ ~panicked
    /\ \E new_count \in 0..MaxCount, mode \in SphereGeneration :
          LET r == SimResizeBuffer(simulation, new_count, mode)
          IN  /\ simulation' = r.sim
              /\ panicked' = r.panic
              /\ gpu_work' = r.work
              /\ last_op' = Op("resize_buffer", simulation.particle_count,
                               new_count, mode, FALSE, NoParams)
    /\ UNCHANGED <<app, tf, last_written, last_read, updates, frames, fragment, draws, release>>

Reset ==
    /\ ~panicked
    /\ \E mode \in SphereGeneration :
          LET r == SimReset(simulation, mode)
          IN  /\ simulation' = r.sim
              /\ panicked' = r.panic
              /\ gpu_work' = r.work
              /\ last_op' = Op("reset", 0, 0, mode, FALSE, NoParams)
    /\ UNCHANGED <<app, tf, last_written, last_read, updates, frames, fragment, draws, release>>

SetPaused ==
    /\ ~panicked
    /\ \E paused \in BOOLEAN :
          /\ simulation' = set_paused(simulation, paused)
          /\ last_op' = Op("set_paused", 0, 0, "", paused, NoParams)
    /\ gpu_work' = <<>>
    /\ UNCHANGED <<app, tf, last_written, last_read, panicked, updates, frames, fragment, draws, release>>

Next == Update \/ ResizeBuffer \/ Reset \/ SetPaused

\* A CpuParticleSimulation under any sequence of trait calls
Spec == Init /\ [][Next]_vars

\* A ComputeParticleSimulation under any sequence of trait calls
ComputeSpec == ComputeInit /\ [][Next]_vars

-----------------------------------------------------------------------------
(* Properties of the strategies under trait calls *)

\* The particles the generator can produce: a particle that is in this set
\* has its spawn position, zero velocity and its spawn color
FreshParticles ==
    UNION {{generate_initial_particles(c, m)[k] : k \in 1..c} :
             <<c, m>> \in (0..(MaxCount + 1)) \X SphereGeneration}

\* C1: once set_paused(true) has been called, a call of update leaves the
\* host array and the GPU particle buffer as they were and records no GPU
\* work.
C1_PausedUpdateIsNoOp ==
    [][(simulation.paused /\ last_op'.op = "update")
        => (simulation' = simulation /\ gpu_work' = <<>>)]_vars

\* C2: resize_buffer(new_count, mode) leaves the particles at the indices
\* below min(old count, new_count) as they were, in the host array, and the
\* upload that ends the call puts exactly them into the buffer, whether the
\* call grows or shrinks the count.
C2_ResizeKeepsPrefix ==
    [][(last_op'.op = "resize_buffer")
        => /\ ~panicked'
           /\ \A k \in 1..Min(simulation.particle_count,
                              simulation'.particle_count) :
                 /\ simulation'.particles[k] = simulation.particles[k]
                 /\ simulation'.particle_buffer[k] = simulation.particles[k]]_vars

\* A resize that changed the count was made over a particle that an update
\* had moved, and the particle is still as the update left it
C2_Witness ==
    /\ last_op.op = "resize_buffer"
    /\ last_op.old_count # last_op.new_count
    /\ last_op.old_count > 0
    /\ simulation.particle_count = last_op.new_count
    /\ simulation.particle_count > 0
    /\ simulation.particles[1].velocity # Vec3Zero
    /\ ~panicked

\* C3: after resize_buffer grows the count from n1 to n2, every particle at
\* an index in [n1, n2) is a freshly generated particle.
C3_GrownRangeIsFresh ==
    [][(last_op'.op = "resize_buffer" /\ ~panicked'
        /\ simulation'.particle_count > simulation.particle_count)
        => \A k \in (simulation.particle_count + 1)..simulation'.particle_count :
              simulation'.particles[k] \in FreshParticles]_vars

\* C4: resize_buffer(count, mode2) with the current count and another
\* generation mode regenerates the data: the active particles are
\* generate_initial_particles(count, mode2) afterwards.
C4_SameCountModeChangeRegenerates ==
    [][(last_op'.op = "resize_buffer"
        /\ last_op'.new_count = simulation.particle_count
        /\ last_op'.mode # simulation.generation_mode)
        => ActiveParticles(simulation') =
               generate_initial_particles(simulation.particle_count,
                                          last_op'.mode)]_vars

\* C6: reset(mode) leaves the particle count n as it was and makes the
\* active particles, in the host array and in the GPU buffer, equal to
\* generate_initial_particles(n, mode), every velocity zero.
C6_ResetRegenerates ==
    [][(last_op'.op = "reset")
        => LET n == simulation.particle_count
               fresh == generate_initial_particles(n, last_op'.mode)
           IN  /\ ~panicked'
               /\ simulation'.particle_count = n
               /\ Len(simulation'.particles) >= n
               /\ Len(simulation'.particle_buffer) >= n
               /\ Take(simulation'.particles, n) = fresh
               /\ Take(simulation'.particle_buffer, n) = fresh
               /\ \A k \in 1..n :
                     /\ simulation'.particles[k].velocity = Vec3Zero
                     /\ simulation'.particle_buffer[k].velocity = Vec3Zero]_vars

\* A reset made after an update call, on a strategy that holds particles
C6_Witness ==
    /\ last_op.op = "reset"
    /\ updates >= 1
    /\ simulation.particle_count >= 2
    /\ ActiveParticles(simulation) =
           generate_initial_particles(simulation.particle_count, last_op.mode)
    /\ ~panicked

\* C10: resize_buffer(0, m) completes without panic and leaves the count 0;
\* from a count of 0, resize_buffer(n, m2) with n > 0 completes without panic
\* and leaves get_particle_count() = n; while the count is 0, update mutates
\* no particle.
C10_ZeroCountTransition ==
    [][/\ (last_op'.op = "resize_buffer" /\ last_op'.new_count = 0)
            => (~panicked' /\ get_particle_count(simulation') = 0)
       /\ (last_op'.op = "resize_buffer" /\ simulation.particle_count = 0
           /\ last_op'.new_count > 0)
            => (~panicked'
                /\ get_particle_count(simulation') = last_op'.new_count)
       /\ (last_op'.op = "update" /\ simulation.particle_count = 0)
            => (/\ ~panicked'
                /\ simulation'.particles = simulation.particles
                /\ simulation'.particle_buffer = simulation.particle_buffer)]_vars

\* resize_buffer took the count from 0 to n > 0 on a strategy whose host
\* array is longer than n: the count had been brought to 0 by resize_buffer
C10_Witness ==
    /\ last_op.op = "resize_buffer"
    /\ last_op.old_count = 0
    /\ last_op.new_count > 0
    /\ simulation.particle_count = last_op.new_count
    /\ Len(simulation.particles) > simulation.particle_count
    /\ ~panicked

-----------------------------------------------------------------------------
(* TransformFeedbackSimulation: two particle buffers used as ping-pong *)

ZeroParticle ==
    [position |-> Origin, velocity |-> Vec3Zero,
     color |-> Color("zero", Origin, 0, 0),
     initial_color |-> Color("zero", Origin, 0, 0)]

\* device.create_buffer: a zero-filled buffer of the given size
create_buffer(size) == [k \in 1..size |-> ZeroParticle]

\* What a call on the strategy yields: the strategy after the call, the
\* buffer halves the call wrote and read (-1: none), and what the call did
\* to the halves and to the current index, in the order it did it.
TfResult(t, wrote, read, work) ==
    [tf |-> t, wrote |-> wrote, read |-> read, work |-> work]

\* the commands of the simulation pass, in the order update records them
TfPassCommands(input_buffer_idx, output_buffer_idx, particle_count) ==
    <<<<"set_vertex_buffer_0", input_buffer_idx>>,
      <<"set_vertex_buffer_1", output_buffer_idx>>,
      <<"draw", particle_count>>,
      <<"end_pass", 0>>>>

\* The simulation pass: one vertex invocation per particle reads the input
\* half and its output is captured into the output half.
TfPass(buffers, input_buffer_idx, output_buffer_idx, particle_count, params) ==
    [buffers EXCEPT ![output_buffer_idx + 1] =
        [k \in 1..Len(@) |->
            IF k <= particle_count /\ k <= Len(buffers[input_buffer_idx + 1])
            THEN UpdateParticle(buffers[input_buffer_idx + 1][k], params)
            ELSE @[k]]]

TfNew(initial_particle_count) ==
    [particle_buffers |->
        <<create_buffer_init(
              generate_initial_particles(initial_particle_count, "Hollow")),
          create_buffer(initial_particle_count)>>,
     particle_count |-> initial_particle_count,
     current_buffer_idx |-> 0,
     paused |-> FALSE]

\* A faulty update: the pass is recorded but the current index is not swapped
TfUpdateNoSwap(t, params) ==
    IF t.paused \/ t.particle_count = 0
    THEN TfResult(t, -1, -1, <<>>)
    ELSE
        LET input_buffer_idx == t.current_buffer_idx
            output_buffer_idx == 1 - input_buffer_idx
        IN  TfResult([t EXCEPT
                        !.particle_buffers =
                            TfPass(@, input_buffer_idx, output_buffer_idx,
                                   t.particle_count, params)],
                     output_buffer_idx, input_buffer_idx,
                     TfPassCommands(input_buffer_idx, output_buffer_idx,
                                    t.particle_count))

\* A faulty update: the pass captures into the half it reads
TfUpdateInPlace(t, params) ==
    IF t.paused \/ t.particle_count = 0
    THEN TfResult(t, -1, -1, <<>>)
    ELSE
        LET input_buffer_idx == t.current_buffer_idx
            output_buffer_idx == input_buffer_idx
        IN  TfResult([t EXCEPT
                        !.particle_buffers =
                            TfPass(@, input_buffer_idx, output_buffer_idx,
                                   t.particle_count, params),
                        !.current_buffer_idx = output_buffer_idx],
                     output_buffer_idx, input_buffer_idx,
                     TfPassCommands(input_buffer_idx, output_buffer_idx,
                                    t.particle_count)
                         \o <<<<"current_buffer_idx", output_buffer_idx>>>>)

TfUpdate(t, params) ==
    IF t.paused \/ t.particle_count = 0
    THEN TfResult(t, -1, -1, <<>>)
    ELSE
        LET input_buffer_idx == t.current_buffer_idx
            output_buffer_idx == 1 - input_buffer_idx
        IN  TfResult([t EXCEPT
                        !.particle_buffers =
                            TfPass(@, input_buffer_idx, output_buffer_idx,
                                   t.particle_count, params),
                        !.current_buffer_idx = output_buffer_idx],
                     output_buffer_idx, input_buffer_idx,
                     TfPassCommands(input_buffer_idx, output_buffer_idx,
                                    t.particle_count)
                         \o <<<<"current_buffer_idx", output_buffer_idx>>>>)

TfResizeBuffer(t, new_count) ==
    IF new_count = t.particle_count
    THEN TfResult(t, -1, -1, <<>>)
    ELSE IF new_count = 0
    THEN TfResult([t EXCEPT !.particle_count = 0], -1, -1, <<>>)
    ELSE TfResult([t EXCEPT
                     !.particle_buffers =
                         <<create_buffer_init(
                               generate_initial_particles(new_count, "Hollow")),
                           create_buffer(new_count)>>,
                     !.particle_count = new_count,
                     !.current_buffer_idx = 0],
                  0, -1,
                  <<<<"destroy", 0>>, <<"destroy", 1>>,
                    <<"create_buffer_init", 0>>, <<"create_buffer", 1>>,
                    <<"current_buffer_idx", 0>>>>)

\* A faulty reset: the strategy resumes
TfResetUnpauses(t) ==
    IF t.particle_count = 0
    THEN TfResult(t, -1, -1, <<>>)
    ELSE TfResult([t EXCEPT
                     !.particle_buffers[1] =
                         write_buffer(@, generate_initial_particles(
                                             t.particle_count, "Hollow")),
                     !.current_buffer_idx = 0,
                     !.paused = FALSE],
                  0, -1,
                  <<<<"write_buffer", 0>>, <<"current_buffer_idx", 0>>>>)

TfReset(t) ==
    IF t.particle_count = 0
    THEN TfResult(t, -1, -1, <<>>)
    ELSE TfResult([t EXCEPT
                     !.particle_buffers[1] =
                         write_buffer(@, generate_initial_particles(
                                             t.particle_count, "Hollow")),
                     !.current_buffer_idx = 0],
                  0, -1,
                  <<<<"write_buffer", 0>>, <<"current_buffer_idx", 0>>>>)

\* get_particle_buffer returns particle_buffers[current_buffer_idx]
TfParticleBufferIdx(t) == t.current_buffer_idx

TfInit ==
    /\ tf \in {TfNew(c) : c \in 0..MaxCount}
    /\ simulation = <<>>
    /\ app = NoApp
    /\ last_written = 0
    /\ last_read = -1
    /\ last_op = Op("new", 0, tf.particle_count, "", FALSE, NoParams)
    /\ gpu_work = <<>>
    /\ panicked = FALSE
    /\ updates = 0
    /\ frames = 0
    /\ release = NoRelease
    /\ fragment = NoFragment
    /\ draws = <<>>

\* A draw that the frame has queued: the buffer half and the particle
\* count its paint callback holds, and whether that buffer has been
\* destroyed since
Draw(buffer, count, destroyed) ==
    [buffer |-> buffer, count |-> count, destroyed |-> destroyed]

\* buffer.destroy() on the halves that the call destroyed
Destroy(queued, work) ==
    [k \in 1..Len(queued) |->
        IF <<"destroy", queued[k].buffer>> \in {work[j] : j \in 1..Len(work)}
        THEN [queued[k] EXCEPT !.destroyed = TRUE]
        ELSE queued[k]]

TfApply(r) ==
    /\ tf' = r.tf
    /\ last_written' = IF r.wrote >= 0 THEN r.wrote ELSE last_written
    /\ last_read' = r.read
    /\ gpu_work' = r.work
    /\ draws' = Destroy(draws, r.work)

TfUpdateCall ==
    /\ updates < MaxSweep
    /\ \E params \in ParamChoices :
          /\ TfApply(TfUpdate(tf, params))
          /\ last_op' = Op("update", 0, 0, "", FALSE, params)
    /\ updates' = updates + 1
    /\ UNCHANGED <<simulation, app, panicked, frames, fragment, release>>

TfResizeBufferCall ==
    /\ \E new_count \in 0..MaxCount :
          /\ TfApply(TfResizeBuffer(tf, new_count))
          /\ last_op' = Op("resize_buffer", tf.particle_count, new_count,
                           "", FALSE, NoParams)
    /\ UNCHANGED <<simulation, app, panicked, updates, frames, fragment, release>>

TfResetCall ==
    /\ TfApply(TfReset(tf))
    /\ last_op' = Op("reset", 0, 0, "", FALSE, NoParams)
    /\ UNCHANGED <<simulation, app, panicked, updates, frames, fragment, release>>

TfSetPausedCall ==
    /\ \E paused \in BOOLEAN :
          /\ tf' = set_paused(tf, paused)
          /\ last_op' = Op("set_paused", 0, 0, "", paused, NoParams)
    /\ last_read' = -1
    /\ gpu_work' = <<>>
    /\ UNCHANGED <<simulation, app, last_written, panicked, updates, frames,
                   fragment, draws, release>>

\* The frame queues the paint callback, which holds a clone of the buffer
\* that get_particle_buffer returns and the particle count
TfQueueDraw ==
    /\ draws = <<>>
    /\ draws' = <<Draw(TfParticleBufferIdx(tf), get_particle_count(tf), FALSE)>>
    /\ last_op' = Op("queue_draw", 0, 0, "", FALSE, NoParams)
    /\ gpu_work' = <<>>
    /\ UNCHANGED <<simulation, app, tf, last_written, last_read, panicked,
                   updates, frames, fragment, release>>

\* The frame's render pass runs the paint callback
TfPaint ==
    /\ draws # <<>>
    /\ draws' = <<>>
    /\ last_op' = Op("paint", 0, 0, "", FALSE, NoParams)
    /\ gpu_work' = <<>>
    /\ UNCHANGED <<simulation, app, tf, last_written, last_read, panicked,
                   updates, frames, fragment, release>>

TfNext ==
    \/ TfUpdateCall \/ TfResizeBufferCall \/ TfResetCall \/ TfSetPausedCall
    \/ TfQueueDraw \/ TfPaint

\* A TransformFeedbackSimulation under any sequence of trait calls
TfSpec == TfInit /\ [][TfNext]_vars

-----------------------------------------------------------------------------
(* ParticleApp: the controller that owns the active strategy.  Particle    *)
(* counts are abstracted to their order: 1 is the smallest count the UI    *)
(* lets through (a drag to 0 is raised to 1) and the 10,000 preset, 2 the  *)
(* 100,000 preset, 3 the 1,000,000 preset, 4 a count above one million.    *)

TenThousand == 1
HundredThousand == 2
Million == 3

\* What the DragValue can be dragged to: zero, and a count above one million
DragValues == {0, Million + 1}
GravityValues == {0, F(1, 1)}

\* The state of the controller: its own fields and the strategy it owns
AppState(a, sim) == [app |-> a, simulation |-> sim]

\* ParticleApp::new
AppNew(has_compute) ==
    LET default_method == IF has_compute THEN "ComputeShader" ELSE "Cpu"
        initial_particles == IF has_compute THEN Million ELSE HundredThousand
    IN  AppState(
            [gravity |-> 0,
             color_mode |-> 0,
             mouse_force |-> F(5, 1),
             mouse_radius |-> F(10, 1),
             max_dist_for_color |-> F(50, 1),
             current_method |-> default_method,
             available_methods |->
                 IF has_compute THEN <<"Cpu", "ComputeShader">> ELSE <<"Cpu">>,
             ui_particle_count |-> initial_particles,
             generation_mode |-> "Hollow",
             ui_generation_mode |-> "Hollow"],
            SimNew(default_method, initial_particles, "Hollow"))

\* A faulty switch: the new strategy starts running whatever the old one did
change_simulation_method_unpaused(st, new_method) ==
    IF st.app.current_method = new_method
    THEN st
    ELSE
        LET current_count == get_particle_count(st.simulation)
        IN  AppState(
                [st.app EXCEPT !.current_method = new_method,
                               !.ui_particle_count = current_count],
                SimNew(new_method, current_count, st.app.generation_mode))

change_simulation_method(st, new_method) ==
    IF st.app.current_method = new_method
    THEN st
    ELSE
        LET current_count == get_particle_count(st.simulation)
            was_paused == is_paused(st.simulation)
        IN  AppState(
                [st.app EXCEPT !.current_method = new_method,
                               !.ui_particle_count = current_count],
                set_paused(SimNew(new_method, current_count,
                                  st.app.generation_mode),
                           was_paused))

\* The parameter block update_simulation builds: one time unit per frame,
\* the left mouse button is up
FrameParams(a) ==
    SimParams(F(1, 1), a.gravity, a.color_mode, a.mouse_force, a.mouse_radius,
              0, F(99, 100), a.max_dist_for_color, Origin)

\* Sequencing: stage applied to the value of x
Then(x, stage(_)) == CHOOSE y \in {stage(v) : v \in {x}} : TRUE

\* What update_simulation yields: the controller and its strategy, whether
\* update panicked, the GPU work it recorded and whether update was called
Updated(st, r) ==
    [st |-> AppState(st.app, r.sim), panic |-> r.panic, work |-> r.work,
     ran |-> TRUE]

\* A faulty update_simulation: the strategy's update runs in every frame
update_simulation_always(st) ==
    Then(SimUpdate(st.simulation, FrameParams(st.app)),
         LAMBDA r : Updated(st, r))

\* update_simulation: the strategy's update runs unless it is paused
update_simulation(st) ==
    IF ~is_paused(st.simulation)
    THEN Then(SimUpdate(st.simulation, FrameParams(st.app)),
              LAMBDA r : Updated(st, r))
    ELSE [st |-> st, panic |-> FALSE, work |-> <<>>, ran |-> FALSE]

\* One user action on the control window in a frame
UiEvent(kind, value) == [kind |-> kind, value |-> value]

\* What render_ui has done so far: the controller and its strategy, whether
\* a call panicked, the GPU work recorded, the two change flags and the
\* count handed to resize_buffer (0: no resize)
UiState(st, panic, work, generation_mode_changed, particle_count_changed, resized) ==
    [st |-> st, panic |-> panic, work |-> work,
     generation_mode_changed |-> generation_mode_changed,
     particle_count_changed |-> particle_count_changed,
     resized |-> resized]

\* the Reset button
ResetButton(x, ui) ==
    IF ui.kind = "reset"
    THEN LET r == SimReset(x.st.simulation, x.st.app.generation_mode)
         IN  [x EXCEPT !.st = AppState(x.st.app, r.sim),
                       !.panic = r.panic, !.work = r.work]
    ELSE x

\* the Pause / Resume button
PauseButton(x, ui) ==
    IF ui.kind = "pause"
    THEN [x EXCEPT !.st.simulation = set_paused(@, ~is_paused(@))]
    ELSE x

\* the method combo box: a click on the current method selects nothing
MethodCombo(x, ui) ==
    IF ui.kind = "method" /\ x.st.app.current_method # ui.value
    THEN [x EXCEPT !.st = change_simulation_method(@, ui.value)]
    ELSE x

\* the generation radio buttons
GenerationRadio(x, ui) ==
    IF ui.kind = "radio" /\ x.st.app.ui_generation_mode # ui.value
    THEN [x EXCEPT !.st.app.ui_generation_mode = ui.value,
                   !.generation_mode_changed = TRUE]
    ELSE x

\* the gravity slider
GravitySlider(x, ui) ==
    IF ui.kind = "gravity" THEN [x EXCEPT !.st.app.gravity = ui.value] ELSE x

\* the DragValue and the preset buttons
CountWidgets(x, ui) ==
    IF ui.kind \in {"drag", "preset"} /\ x.st.app.ui_particle_count # ui.value
    THEN [x EXCEPT !.st.app.ui_particle_count = ui.value,
                   !.particle_count_changed = TRUE]
    ELSE x

\* A faulty resize block: the count raised to 1 and the mode are handed to
\* resize_buffer but not written back to the controller
ApplyResizeNoWriteBack(x) ==
    IF x.particle_count_changed \/ x.generation_mode_changed
    THEN LET count_to_set == Max(x.st.app.ui_particle_count, 1)
             generation_mode == x.st.app.ui_generation_mode
             r == SimResizeBuffer(x.st.simulation, count_to_set, generation_mode)
         IN  [x EXCEPT !.st = AppState(x.st.app, r.sim),
                       !.panic = x.panic \/ r.panic,
                       !.work = x.work \o r.work,
                       !.resized = count_to_set]
    ELSE x

\* apply the resize if the count or the generation mode changed
ApplyResize(x) ==
    IF x.particle_count_changed \/ x.generation_mode_changed
    THEN LET count_to_set == Max(x.st.app.ui_particle_count, 1)
             generation_mode == x.st.app.ui_generation_mode
             r == SimResizeBuffer(x.st.simulation, count_to_set, generation_mode)
         IN  [x EXCEPT !.st = AppState(
                                  [x.st.app EXCEPT
                                      !.ui_particle_count = count_to_set,
                                      !.generation_mode = generation_mode],
                                  r.sim),
                       !.panic = x.panic \/ r.panic,
                       !.work = x.work \o r.work,
                       !.resized = count_to_set]
    ELSE x

\* render_ui, with the widgets in the order the code visits them
render_ui(st, ui) ==
    Then(Then(Then(Then(Then(Then(
        ResetButton(UiState(st, FALSE, <<>>, FALSE, FALSE, 0), ui),
        LAMBDA x : PauseButton(x, ui)),
        LAMBDA x : MethodCombo(x, ui)),
        LAMBDA x : GenerationRadio(x, ui)),
        LAMBDA x : GravitySlider(x, ui)),
        LAMBDA x : CountWidgets(x, ui)),
        LAMBDA x : ApplyResize(x))

\* The paint callback the frame adds to the painter: a clone of the
\* strategy's particle buffer and its particle count
ClonedParticleCallback(sim) ==
    Draw(get_particle_buffer(sim), get_particle_count(sim), FALSE)

\* A faulty frame: the paint callback is built after render_ui has run
FrameEndDrawAfterUi(u, ui) ==
    IF u.panic
    THEN [st |-> u.st, panic |-> TRUE, work |-> u.work, ran |-> u.ran,
          resized |-> 0, draws |-> <<>>]
    ELSE LET r == render_ui(u.st, ui)
         IN  [st |-> r.st, panic |-> r.panic, work |-> u.work \o r.work,
              ran |-> u.ran, resized |-> r.resized,
              draws |-> <<ClonedParticleCallback(r.st.simulation)>>]

\* eframe::App::update: one frame, update_simulation, then the paint
\* callback is queued, then render_ui
FrameEnd(u, ui) ==
    IF u.panic
    THEN [st |-> u.st, panic |-> TRUE, work |-> u.work, ran |-> u.ran,
          resized |-> 0, draws |-> <<>>]
    ELSE LET r == render_ui(u.st, ui)
         IN  [st |-> r.st, panic |-> r.panic, work |-> u.work \o r.work,
              ran |-> u.ran, resized |-> r.resized,
              draws |-> <<ClonedParticleCallback(u.st.simulation)>>]

AppUpdate(st, ui) == Then(update_simulation(st), LAMBDA u : FrameEnd(u, ui))

AppInit ==
    /\ \E has_compute \in BOOLEAN :
          /\ app = AppNew(has_compute).app
          /\ simulation = AppNew(has_compute).simulation
    /\ tf = NoTf
    /\ last_written = 0
    /\ last_read = 0
    /\ last_op = Op("new", 0, simulation.particle_count, "", FALSE, NoParams)
    /\ gpu_work = <<>>
    /\ panicked = FALSE
    /\ updates = 0
    /\ frames = 0
    /\ release = NoRelease
    /\ fragment = NoFragment
    /\ draws = <<>>

\* A frame in which the user does `ui`
Frame(ui) ==
    /\ ~panicked
    /\ frames < MaxFrames
    /\ \E r \in {AppUpdate(AppState(app, simulation), ui)} :
          /\ app' = r.st.app
          /\ simulation' = r.st.simulation
          /\ panicked' = r.panic
          /\ gpu_work' = r.work
          /\ updates' = IF r.ran THEN updates + 1 ELSE updates
          /\ draws' = r.draws
          /\ last_op' = Op(ui.kind, 0, r.resized,
                           IF ui.kind \in {"method", "radio"} THEN ui.value ELSE "",
                           r.ran, NoParams)
    /\ frames' = frames + 1
    /\ UNCHANGED <<tf, last_written, last_read, fragment, release>>

FrameIdle == Frame(UiEvent("none", 0))
FrameReset == Frame(UiEvent("reset", 0))
FramePause == Frame(UiEvent("pause", 0))
FrameMethod == \E k \in 1..Len(app.available_methods) :
                  Frame(UiEvent("method", app.available_methods[k]))
FrameGeneration == \E m \in SphereGeneration : Frame(UiEvent("radio", m))
FrameGravity == \E g \in GravityValues : Frame(UiEvent("gravity", g))
FrameDrag == \E v \in DragValues : Frame(UiEvent("drag", v))
FramePreset == \E c \in {TenThousand, HundredThousand, Million} :
                  Frame(UiEvent("preset", c))

AppNext ==
    \/ FrameIdle \/ FrameReset \/ FramePause \/ FrameMethod
    \/ FrameGeneration \/ FrameGravity \/ FrameDrag \/ FramePreset

\* The application under any sequence of frames and user actions
AppSpec == AppInit /\ [][AppNext]_vars

-----------------------------------------------------------------------------
(* Properties of the transform feedback strategy *)

\* C8: get_particle_buffer returns the half written most recently (the
\* output half of the last update that was not skipped, buffer 0 after a
\* reset or a resize), never the half the last update only read.
C8_ReturnsLastWrittenHalf ==
    /\ TfParticleBufferIdx(tf) = last_written
    /\ (last_read >= 0 => TfParticleBufferIdx(tf) # last_read)

\* An update that was not skipped read half 0 and wrote half 1
C8_Witness ==
    /\ last_op.op = "update"
    /\ last_read = 0
    /\ last_written = 1
    /\ TfParticleBufferIdx(tf) = 1

-----------------------------------------------------------------------------
(* Properties of the application *)

\* C5: after the Reset button the gravity that the following updates use
\* is 0, whatever it was before.
C5_ResetZeroesGravity ==
    [][(last_op'.op = "reset") => FrameParams(app').gravity = 0]_vars

C9_CountWithinRange ==
    /\ get_particle_count(simulation) \in 1..Million
    /\ (last_op.op \in {"drag", "preset"} => last_op.new_count \in 0..Million)

-----------------------------------------------------------------------------
(* CpuParticleSimulation::update over its parameter blocks: gravity 0 or 1, *)
(* the three color modes, the mouse button up or down with the mouse on the *)
(* spawn point of the first Hollow particle.                                *)


MouseAt == Position(<<"Hollow", 0, 1>>, Vec3Zero)

UpdateParams ==
    {SimParams(F(1, 1), g, c, F(2, 1), F(1, 1), d, F(1, 1), F(50, 1), MouseAt) :
        g \in {0, F(1, 1)}, c \in 0..2, d \in {0, 1}}

UpdateOnly ==
    /\ ~panicked
    /\ updates < MaxSweep
    /\ \E params \in UpdateParams :
          LET r == SimUpdate(simulation, params)
          IN  /\ simulation' = r.sim
              /\ panicked' = r.panic
              /\ gpu_work' = r.work
              /\ last_op' = Op("update", 0, 0, "", FALSE, params)
    /\ updates' = updates + 1
    /\ UNCHANGED <<app, tf, last_written, last_read, frames, fragment, draws, release>>

\* A CpuParticleSimulation under any sequence of update calls
UpdateSpec == Init /\ [][UpdateOnly]_vars

\* the velocity after gravity has been applied to it
AfterGravity(velocity, params) ==
    <<velocity[1],
      FSub(velocity[2], FMul(params.gravity, params.delta_time)),
      velocity[3]>>

\* C11, as stated: with the mouse button up and damping 1, update lowers
\* velocity.y of each active particle by gravity * delta_time and advances
\* its position by delta_time times the velocity it had before the update.
C11_PositionByPreUpdateVelocity ==
    [][(last_op'.op = "update" /\ last_op'.params.is_mouse_dragging = 0
        /\ last_op'.params.damping = F(1, 1))
        => \A k \in 1..simulation.particle_count :
              LET p == simulation.particles[k]
                  q == simulation'.particles[k]
              IN  /\ q.velocity = AfterGravity(p.velocity, last_op'.params)
                  /\ q.position.off =
                         VAdd(p.position.off,
                              VScale(p.velocity, last_op'.params.delta_time))]_vars

\* C11, amended: with the mouse button up and damping 1, update lowers
\* velocity.y of each active particle by gravity * delta_time and advances
\* its position by delta_time times the velocity after that change.
C11_PositionByNewVelocity ==
    [][(last_op'.op = "update" /\ last_op'.params.is_mouse_dragging = 0
        /\ last_op'.params.damping = F(1, 1))
        => \A k \in 1..simulation.particle_count :
              LET p == simulation.particles[k]
                  q == simulation'.particles[k]
              IN  /\ q.velocity = AfterGravity(p.velocity, last_op'.params)
                  /\ q.position.spawn = p.position.spawn
                  /\ q.position.off =
                         VAdd(p.position.off,
                              VScale(AfterGravity(p.velocity, last_op'.params),
                                     last_op'.params.delta_time))]_vars

\* Two updates with gravity 1 and the mouse button up: the second found the
\* first particle falling at speed 1 and moved it by 2
C11_Witness ==
    /\ last_op.op = "update"
    /\ last_op.params.is_mouse_dragging = 0
    /\ last_op.params.gravity = F(1, 1)
    /\ updates = 2
    /\ simulation.particle_count >= 2
    /\ simulation.particles[1].velocity = <<0, 0 - F(2, 1), 0>>
    /\ simulation.particles[1].position.off = <<0, 0 - F(3, 1), 0>>

\* C12: update with color mode 0 sets the color of each active particle to
\* its stored spawn color, in the host array and in the uploaded buffer,
\* whatever the color modes of the updates before it.
C12_ModeZeroRestoresSpawnColor ==
    [][(last_op'.op = "update" /\ last_op'.params.color_mode = 0)
        => \A k \in 1..simulation'.particle_count :
              /\ simulation'.particles[k].color =
                     simulation'.particles[k].initial_color
              /\ simulation'.particle_buffer[k].color =
                     simulation'.particle_buffer[k].initial_color]_vars

\* no component of the vector is NaN
Defined(v) == ~IsNaN(v[1]) /\ ~IsNaN(v[2]) /\ ~IsNaN(v[3])

\* C13: update with the mouse button down leaves a particle that is exactly
\* at the mouse position (dist = 0) with a defined velocity and position.
C13_ZeroDistanceIsDefined ==
    [][(last_op'.op = "update" /\ last_op'.params.is_mouse_dragging > 0)
        => \A k \in 1..simulation.particle_count :
              (Direction(last_op'.params.mouse_position,
                         simulation.particles[k].position) = Vec3Zero)
              => /\ Defined(simulation'.particles[k].velocity)
                 /\ Defined(simulation'.particles[k].position.off)]_vars

-----------------------------------------------------------------------------
(* Properties of the compute strategy *)

\* the call created a buffer or a bind group
Allocates(work) ==
    \E k \in 1..Len(work) : work[k] \in {"create_buffer_init", "create_bind_group"}

\* C15: resize_buffer with a new_count below the current count only lowers
\* the count: it creates no buffer and no bind group, and the retained
\* particles are in the buffer as they were.
C15_ShrinkKeepsBuffer ==
    [][(last_op'.op = "resize_buffer"
        /\ last_op'.new_count < simulation.particle_count)
        => /\ ~Allocates(gpu_work')
           /\ get_particle_count(simulation') = last_op'.new_count
           /\ Len(get_particle_buffer(simulation'))
                  = Len(get_particle_buffer(simulation))
           /\ \A k \in 1..last_op'.new_count :
                 get_particle_buffer(simulation')[k]
                     = get_particle_buffer(simulation)[k]]_vars

\* C16: reset rewrites the contents of the particle buffer that is there:
\* it creates no buffer and no bind group, the buffer keeps its size and
\* the count is unchanged.
C16_ResetInPlace ==
    [][(last_op'.op = "reset")
        => /\ ~Allocates(gpu_work')
           /\ Len(get_particle_buffer(simulation'))
                  = Len(get_particle_buffer(simulation))
           /\ get_particle_count(simulation')
                  = get_particle_count(simulation)]_vars

-----------------------------------------------------------------------------
(* Properties of the queued draws *)

\* C18: a particle buffer that a queued draw references is not destroyed
\* before the draw has executed: no queued draw holds a destroyed buffer.
C18_QueuedDrawBufferAlive ==
    \A k \in 1..Len(draws) : ~draws[k].destroyed

-----------------------------------------------------------------------------
(* FragmentParticleSystem: two particle textures used as ping-pong, one     *)
(* texel per particle, and the buffer that is handed to the renderer       *)

\* The particle the constructor makes from draws 9i .. 9i+8 of the stream
\* seeded 42: a color, a position and a small velocity
Seed42Particle(i) ==
    [position |-> Position(<<"Seed42", i, 0>>, Vec3Zero),
     velocity |-> <<"Seed42", i, 1>>,
     color |-> Color("seed42", Position(<<"Seed42", i, 2>>, Vec3Zero), 0, 0),
     initial_color |->
         Color("seed42", Position(<<"Seed42", i, 2>>, Vec3Zero), 0, 0)]

\* device.create_texture: the texels are zero until something is written
create_particle_texture(size) == [k \in 1..size |-> ZeroParticle]

\* the spacing of the f32 values around n: 1 below 2^24, doubling from there
RECURSIVE Ulp(_)
Ulp(n) == IF n < 2^24 THEN 1 ELSE 2 * Ulp(n \div 2)

\* n as f32: the nearest value with a 24-bit significand, ties to even
AsF32(n) ==
    LET ulp == Ulp(n)
        lo == (n \div ulp) * ulp
        rem == n - lo
    IN  IF 2 * rem < ulp THEN lo
        ELSE IF 2 * rem > ulp THEN lo + ulp
        ELSE IF (lo \div ulp) % 2 = 0 THEN lo ELSE lo + ulp

\* the largest k in lo..hi with k * k <= x
RECURSIVE SqrtBetween(_, _, _)
SqrtBetween(x, lo, hi) ==
    IF lo >= hi THEN lo
    ELSE LET mid == (lo + hi + 1) \div 2
         IN  IF mid * mid <= x THEN SqrtBetween(x, mid, hi)
             ELSE SqrtBetween(x, lo, mid - 1)

FloorSqrt(x) == SqrtBetween(x, 0, Min(x, 46340))

\* the largest power of two that is at most k, for k >= 1
RECURSIVE PowerOfTwoBelow(_)
PowerOfTwoBelow(k) == IF k < 2 THEN 1 ELSE 2 * PowerOfTwoBelow(k \div 2)

\* f32::sqrt(x).ceil() for an f32 x with an integer value.  With
\* k = floor(sqrt(x)) and d = x - k * k > 0, the correctly rounded root is k
\* itself when sqrt(x) - k is below half the f32 spacing at k, which is
\* d * (2^23 / 2^e) <= k for 2^e <= k < 2^(e+1); it is above k otherwise.
CeilSqrtF32(x) ==
    LET k == FloorSqrt(x)
        d == x - k * k
    IN  IF d = 0 THEN k
        ELSE IF k >= 1 /\ d * (2^23 \div PowerOfTwoBelow(k)) <= k THEN k
        ELSE k + 1

\* (n as f64 / width as f64).ceil(): exact for u32 operands; 0.0 / 0.0 is
\* NaN, which converts to 0
CeilDivF64(n, width) == IF width = 0 THEN 0 ELSE (n + width - 1) \div width

\* texture_height rounded down instead of up
TextureSizeFloorHeight(max_particles) ==
    LET texture_width == CeilSqrtF32(AsF32(max_particles))
    IN  [width |-> texture_width,
         height |-> IF texture_width = 0 THEN 0
                    ELSE max_particles \div texture_width]

\* texture_width and texture_height
TextureSize(max_particles) ==
    LET texture_width == CeilSqrtF32(AsF32(max_particles))
    IN  [width |-> texture_width,
         height |-> CeilDivF64(max_particles, texture_width)]

\* new never uploads the particle data to the textures
FragmentNew(max_particles) ==
    [particle_buffer |->
         create_buffer_init([k \in 1..max_particles |-> Seed42Particle(k - 1)]),
     texture_size |-> TextureSize(max_particles),
     particle_textures |-> <<create_particle_texture(max_particles),
                             create_particle_texture(max_particles)>>,
     current_texture |-> 0,
     max_particles |-> max_particles,
     num_particles |-> max_particles,
     paused |-> FALSE,
     gravity |-> 0,
     color_mode |-> 0,
     mouse_force |-> F(5, 1),
     mouse_radius |-> F(10, 1),
     mouse_position |-> Origin,
     is_mouse_dragging |-> FALSE]

\* the parameter block update writes: delta_time is 0.016, there is no
\* damping
FragmentSimParams(f) ==
    SimParams(F(16, 1000), f.gravity, f.color_mode, f.mouse_force,
              f.mouse_radius, IF f.is_mouse_dragging THEN 1 ELSE 0, F(1, 1),
              F(50, 1), f.mouse_position)

\* The update pass: a full-screen quad whose fragment shader reads the
\* source texture texel by texel, applies the integration formula and
\* writes the target texture.
FragmentPass(textures, source, target, params) ==
    [textures EXCEPT ![target + 1] =
        [k \in 1..Len(@) |-> UpdateParticle(textures[source + 1][k], params)]]

\* render_bind_groups: the texture that each of the two bind groups binds
\* for reading
render_bind_groups == <<0, 1>>

\* What a call yields: the system after the call and what the call
\* recorded, in the order it did it
FragmentResult(f, work) == [fragment |-> f, work |-> work]

\* The render pass is a local of update: it ends when update returns, after
\* the assignment to current_texture.
\* A faulty update: the current texture is flipped before the pass is
\* recorded, so the pass reads the texture it should write
FragmentUpdateFlipFirst(f) ==
    IF f.paused
    THEN FragmentResult(f, <<>>)
    ELSE
        LET source == 1 - f.current_texture
            target == 1 - source
        IN  FragmentResult(
                [f EXCEPT !.particle_textures =
                              FragmentPass(@, source, target,
                                           FragmentSimParams(f)),
                          !.current_texture = source],
                <<<<"current_texture", source>>,
                  <<"write_buffer", 0>>,
                  <<"color_attachment", target>>,
                  <<"set_bind_group", source>>,
                  <<"draw", 4>>,
                  <<"end_pass", 0>>>>)

FragmentUpdate(f) ==
    IF f.paused
    THEN FragmentResult(f, <<>>)
    ELSE
        LET source == f.current_texture
            target == 1 - source
        IN  FragmentResult(
                [f EXCEPT !.particle_textures =
                              FragmentPass(@, render_bind_groups[source + 1],
                                           target, FragmentSimParams(f)),
                          !.current_texture = target],
                <<<<"write_buffer", 0>>,
                  <<"color_attachment", target>>,
                  <<"set_bind_group", source>>,
                  <<"draw", 4>>,
                  <<"current_texture", target>>,
                  <<"end_pass", 0>>>>)

\* reset only sets the gravity field
FragmentReset(f) == FragmentResult([f EXCEPT !.gravity = 0], <<>>)

set_gravity(f, gravity) == [f EXCEPT !.gravity = gravity]

FragmentInit ==
    /\ fragment \in {FragmentNew(n) : n \in 1..MaxCount}
    /\ simulation = <<>>
    /\ app = NoApp
    /\ tf = NoTf
    /\ last_written = 0
    /\ last_read = -1
    /\ last_op = Op("new", 0, fragment.num_particles, "", FALSE, NoParams)
    /\ gpu_work = <<>>
    /\ panicked = FALSE
    /\ updates = 0
    /\ frames = 0
    /\ release = NoRelease
    /\ draws = <<>>

FragmentApply(r) ==
    /\ fragment' = r.fragment
    /\ gpu_work' = r.work

FragmentUpdateCall ==
    /\ updates < MaxSweep
    /\ FragmentApply(FragmentUpdate(fragment))
    /\ last_op' = Op("update", 0, 0, "", FALSE, NoParams)
    /\ updates' = updates + 1
    /\ UNCHANGED <<simulation, app, tf, last_written, last_read, panicked,
                   frames, draws, release>>

FragmentResetCall ==
    /\ FragmentApply(FragmentReset(fragment))
    /\ last_op' = Op("reset", 0, 0, "", FALSE, NoParams)
    /\ UNCHANGED <<simulation, app, tf, last_written, last_read, panicked,
                   updates, frames, draws, release>>

FragmentSetPausedCall ==
    /\ \E paused \in BOOLEAN :
          /\ fragment' = set_paused(fragment, paused)
          /\ last_op' = Op("set_paused", 0, 0, "", paused, NoParams)
    /\ gpu_work' = <<>>
    /\ UNCHANGED <<simulation, app, tf, last_written, last_read, panicked,
                   updates, frames, draws, release>>

FragmentSetGravityCall ==
    /\ \E gravity \in GravityValues :
          /\ fragment' = set_gravity(fragment, gravity)
          /\ last_op' = Op("set_gravity", 0, 0, "", FALSE, NoParams)
    /\ gpu_work' = <<>>
    /\ UNCHANGED <<simulation, app, tf, last_written, last_read, panicked,
                   updates, frames, draws, release>>

FragmentNext ==
    \/ FragmentUpdateCall \/ FragmentResetCall
    \/ FragmentSetPausedCall \/ FragmentSetGravityCall

\* A FragmentParticleSystem under any sequence of calls
FragmentSpec == FragmentInit /\ [][FragmentNext]_vars

\* Either ping-pong strategy under any sequence of calls
PingPongSpec ==
    /\ TfInit \/ FragmentInit
    /\ [][(tf # NoTf /\ TfNext) \/ (fragment # NoFragment /\ FragmentNext)]_vars

-----------------------------------------------------------------------------
(* Properties of the ping-pong strategies *)

\* C17: after reset, the current texture, which the next update reads, and
\* the buffer handed to the renderer hold the particle data they held after
\* construction.
C17_ResetRestoresInitialData ==
    [][(last_op'.op = "reset")
        => LET constructed == FragmentNew(fragment.max_particles)
           IN  /\ fragment'.particle_textures[fragment'.current_texture + 1]
                      = constructed.particle_textures[
                            constructed.current_texture + 1]
               /\ fragment'.particle_buffer = constructed.particle_buffer]_vars

\* The positions in the recorded work at which the current index is assigned
Flips(work, field) == {k \in 1..Len(work) : work[k][1] = field}

\* A ping-pong step: the index goes from old to 1 - old by one assignment,
\* and the commands that bind the old current half for reading and the
\* other half for writing, and the draw, are recorded before it.
PingPongStep(work, field, old, new, reads, writes) ==
    /\ new = 1 - old
    /\ \E flip \in 1..Len(work) :
          /\ Flips(work, field) = {flip}
          /\ work[flip] = <<field, 1 - old>>
          /\ \E k \in 1..(flip - 1) : work[k] = <<reads, old>>
          /\ \E k \in 1..(flip - 1) : work[k] = <<writes, 1 - old>>
          /\ \E k \in 1..(flip - 1) : work[k][1] = "draw"
          /\ \A k \in 1..Len(work) :
                work[k][1] \in {reads, writes, "draw"} => k < flip

\* C20: an update that is not skipped flips the current index exactly once,
\* after it has recorded the pass that reads the old current half and
\* writes the other half; a skipped update (paused, or no particles for
\* transform feedback) leaves the index as it was.
C20_FlipAfterPassRecorded ==
    [][(last_op'.op = "update")
        => /\ (tf # NoTf)
                => IF tf.paused \/ tf.particle_count = 0
                   THEN /\ tf'.current_buffer_idx = tf.current_buffer_idx
                        /\ Flips(gpu_work', "current_buffer_idx") = {}
                   ELSE PingPongStep(gpu_work', "current_buffer_idx",
                                     tf.current_buffer_idx,
                                     tf'.current_buffer_idx,
                                     "set_vertex_buffer_0",
                                     "set_vertex_buffer_1")
           /\ (fragment # NoFragment)
                => IF fragment.paused
                   THEN /\ fragment'.current_texture = fragment.current_texture
                        /\ Flips(gpu_work', "current_texture") = {}
                   ELSE PingPongStep(gpu_work', "current_texture",
                                     fragment.current_texture,
                                     fragment'.current_texture,
                                     "set_bind_group",
                                     "color_attachment")]_vars

\* The second update of a fragment system that is not paused flipped the
\* current texture back to 0
C20_Witness ==
    /\ fragment # NoFragment
    /\ last_op.op = "update"
    /\ updates = 2
    /\ fragment.current_texture = 0
    /\ gpu_work # <<>>
    /\ gpu_work[4] = <<"draw", 4>>
    /\ gpu_work[5] = <<"current_texture", 0>>

-----------------------------------------------------------------------------
(* Properties of the frame's draw *)

\* C19: every frame, paused or not, queues exactly one particle draw, with
\* the strategy's particle buffer and particle count as they are once
\* update_simulation has run; in a paused frame that is the buffer as the
\* frame found it.
C19_OneDrawPerFrame ==
    [][(frames' = frames + 1)
        => \E u \in {update_simulation(AppState(app, simulation))} :
              /\ Len(draws') = 1
              /\ draws'[1].buffer = get_particle_buffer(u.st.simulation)
              /\ draws'[1].count = get_particle_count(u.st.simulation)
              /\ ~draws'[1].destroyed
              /\ is_paused(simulation)
                    => /\ draws'[1].buffer = get_particle_buffer(simulation)
                       /\ draws'[1].count = get_particle_count(simulation)]_vars

\* A paused frame queued its draw and a preset button then changed the count
C19_Witness ==
    /\ last_op.op = "preset"
    /\ ~last_op.flag
    /\ is_paused(simulation)
    /\ Len(draws) = 1
    /\ draws[1].count # get_particle_count(simulation)
    /\ ~panicked

-----------------------------------------------------------------------------
(* Invariants of the CPU strategy *)

\* C21: after new and after every update, resize_buffer and reset, the
\* first particle_count records of the GPU particle buffer are the first
\* particle_count particles of the host array.
C21_BufferMirrorsHost ==
    /\ ~panicked
    /\ simulation.particle_count <= Len(simulation.particle_buffer)
    /\ simulation.particle_count <= Len(simulation.particles)
    /\ \A k \in 1..simulation.particle_count :
          simulation.particle_buffer[k] = simulation.particles[k]

\* An update with gravity has moved two particles, and the buffer holds them
C21_Witness ==
    /\ last_op.op = "update"
    /\ last_op.params.gravity > 0
    /\ simulation.particle_count = 2
    /\ simulation.particles[2].velocity # Vec3Zero
    /\ simulation.particle_buffer[2] = simulation.particles[2]

\* C25: in every reachable state the particle count is at most the length
\* of the host array, which is at most the capacity of the GPU buffer, and
\* no slice or bulk write has been out of range.
C25_CountWithinArrayWithinBuffer ==
    /\ simulation.particle_count <= Len(simulation.particles)
    /\ Len(simulation.particles) <= Len(simulation.particle_buffer)
    /\ ~panicked

\* resize_buffer has grown the host array and the buffer of a strategy that
\* was constructed with fewer particles
C25_Witness ==
    /\ last_op.op = "resize_buffer"
    /\ last_op.new_count > last_op.old_count
    /\ last_op.old_count > 0
    /\ Len(simulation.particles) = last_op.new_count
    /\ Len(simulation.particle_buffer) = last_op.new_count
    /\ gpu_work = <<"create_buffer_init", "write_buffer">>

-----------------------------------------------------------------------------
(* The generator's Hollow branch *)

\* C22: generate_initial_particles(count, Hollow) gives every particle a
\* defined position, for every count: a strategy that has just been
\* constructed or reset in Hollow mode holds no particle with a NaN
\* coordinate.
C22_HollowPositionsDefined ==
    (last_op.op \in {"new", "reset"} /\ simulation.generation_mode = "Hollow")
        => \A k \in 1..simulation.particle_count :
              Defined(simulation.particles[k].position.off)

-----------------------------------------------------------------------------
(* The workgroup count of the compute strategy's update.  The particle     *)
(* buffer is left out here: the counts go up to 2^24 + 3 and the dispatch   *)
(* depends on the count only.                                               *)

MaxDispatchCount == 130

WorkgroupSize == 128

\* ((particle_count as f32) / 128.0).ceil() as u32: the division by a power
\* of two and ceil are exact
WorkgroupCount(particle_count) ==
    (AsF32(particle_count) + (WorkgroupSize - 1)) \div WorkgroupSize

\* Counts the application can give the strategy: small ones, the three
\* presets, and counts around 2^24 (the DragValue has no upper limit)
DispatchCounts ==
    (0..MaxDispatchCount) \cup {10000, 100000, 1000000}
        \cup {2^24 - 1, 2^24, 2^24 + 1, 2^24 + 2, 2^24 + 3}

DispatchSim(particle_count) ==
    [method |-> "ComputeShader", particle_count |-> particle_count,
     paused |-> FALSE]

DispatchInit ==
    /\ simulation \in {DispatchSim(n) : n \in DispatchCounts}
    /\ app = NoApp
    /\ tf = NoTf
    /\ last_written = 0
    /\ last_read = 0
    /\ last_op = Op("new", 0, simulation.particle_count, "", FALSE, NoParams)
    /\ gpu_work = <<>>
    /\ panicked = FALSE
    /\ updates = 0
    /\ frames = 0
    /\ release = NoRelease
    /\ fragment = NoFragment
    /\ draws = <<>>

\* update: write the parameters, dispatch the workgroups
DispatchUpdate ==
    /\ gpu_work' = <<<<"write_buffer", 0>>,
                     <<"dispatch_workgroups",
                       WorkgroupCount(simulation.particle_count)>>>>
    /\ last_op' = Op("update", 0, 0, "", FALSE, NoParams)
    /\ UNCHANGED <<simulation, app, tf, last_written, last_read, panicked,
                   updates, frames, fragment, draws, release>>

\* resize_buffer as far as the count goes
DispatchResizeBuffer ==
    /\ \E new_count \in DispatchCounts :
          /\ simulation' = [simulation EXCEPT !.particle_count = new_count]
          /\ last_op' = Op("resize_buffer", 0, new_count, "", FALSE, NoParams)
    /\ gpu_work' = <<>>
    /\ UNCHANGED <<app, tf, last_written, last_read, panicked, updates, frames,
                   fragment, draws, release>>

DispatchNext == DispatchUpdate \/ DispatchResizeBuffer

\* The compute strategy's particle count and dispatch under update and
\* resize_buffer
DispatchSpec == DispatchInit /\ [][DispatchNext]_vars

\* C23: update dispatches ceil(particle_count / 128) workgroups: zero for
\* zero particles, and otherwise workgroups * 128 >= particle_count >
\* (workgroups - 1) * 128.
C23_WorkgroupsCoverParticles ==
    (last_op.op = "update")
        => LET workgroups == gpu_work[2][2]
               n == simulation.particle_count
           IN  /\ n = 0 => workgroups = 0
               /\ n > 0 => /\ workgroups * WorkgroupSize >= n
                            /\ n > (workgroups - 1) * WorkgroupSize

-----------------------------------------------------------------------------
(* The texture grid of FragmentParticleSystem::new.  The textures          *)
(* themselves are left out here: the counts go up to 2^24 + 3 and the grid  *)
(* depends on the count only.                                               *)

MaxTextureCount == 130

TextureCounts ==
    (1..MaxTextureCount) \cup {10000, 100000, 1000000}
        \cup {2^24 - 1, 2^24, 2^24 + 1, 2^24 + 2, 2^24 + 3}

TextureInit ==
    /\ fragment = NoFragment
    /\ simulation = <<>>
    /\ app = NoApp
    /\ tf = NoTf
    /\ last_written = 0
    /\ last_read = 0
    /\ last_op = Op("none", 0, 0, "", FALSE, NoParams)
    /\ gpu_work = <<>>
    /\ panicked = FALSE
    /\ updates = 0
    /\ frames = 0
    /\ release = NoRelease
    /\ draws = <<>>

\* new, as far as the texture size goes
TextureNew ==
    /\ \E max_particles \in TextureCounts :
          /\ fragment' = [max_particles |-> max_particles,
                          texture_size |-> TextureSize(max_particles)]
          /\ last_op' = Op("new", 0, max_particles, "", FALSE, NoParams)
    /\ UNCHANGED <<simulation, app, tf, last_written, last_read, gpu_work,
                   panicked, updates, frames, draws, release>>

\* FragmentParticleSystem::new over its max_particles argument
TextureSpec == TextureInit /\ [][TextureNew]_vars

\* the least w with w * w >= n
CeilSqrt(n) ==
    LET k == FloorSqrt(n) IN IF k * k = n THEN k ELSE k + 1

\* C24: for n = max_particles >= 1 the textures are ceil(sqrt(n)) wide and
\* ceil(n / width) high, so that width * height >= n and
\* width * (height - 1) < n.
C24_TextureGridFits ==
    (last_op.op = "new")
        => LET n == fragment.max_particles
               width == fragment.texture_size.width
               height == fragment.texture_size.height
           IN  /\ width = CeilSqrt(n)
               /\ height = (n + width - 1) \div width
               /\ width * height >= n
               /\ width * (height - 1) < n

\* C24, with the width as f32 computes it: for every n >= 1 the height is
\* ceil(n / width), width * height >= n and width * (height - 1) < n; the
\* width is ceil(sqrt(n)) for n up to 2^24 and ceil(sqrt(n)) or one less above.
C24_GridHoldsEveryParticle ==
    (last_op.op = "new")
        => LET n == fragment.max_particles
               width == fragment.texture_size.width
               height == fragment.texture_size.height
           IN  /\ n <= 2^24 => width = CeilSqrt(n)
               /\ width \in {CeilSqrt(n) - 1, CeilSqrt(n)}
               /\ height = (n + width - 1) \div width
               /\ width * height >= n
               /\ width * (height - 1) < n

\* a count above 2^24 whose f32 square root rounds down to an integer
C24_Witness ==
    /\ last_op.op = "new"
    /\ fragment.max_particles > 2^24
    /\ fragment.texture_size.width = CeilSqrt(fragment.max_particles) - 1
    /\ fragment.texture_size.width * fragment.texture_size.height
           >= fragment.max_particles

-----------------------------------------------------------------------------
(* The controller's copies of the strategy's state *)

\* C26: at the end of every frame, whatever the user did in it,
\* current_method is the strategy's method, ui_particle_count is the
\* strategy's particle count and generation_mode is ui_generation_mode.
C26_ControllerInSync ==
    ~panicked
        => /\ app.current_method = get_method(simulation)
           /\ app.ui_particle_count = get_particle_count(simulation)
           /\ app.generation_mode = app.ui_generation_mode

\* The user switched from the default compute strategy to the CPU one, chose
\* Filled and dragged the count to 0, which the resize block raised to 1
C26_Witness ==
    /\ ~panicked
    /\ last_op.op = "drag"
    /\ last_op.new_count = 1
    /\ app.ui_particle_count = 1
    /\ get_particle_count(simulation) = 1
    /\ Len(app.available_methods) = 2
    /\ app.current_method = "Cpu"
    /\ get_method(simulation) = "Cpu"
    /\ app.ui_generation_mode = "Filled"
    /\ app.generation_mode = "Filled"

\* C27: a frame calls the strategy's update only if the strategy is not
\* paused when update_simulation runs, and a frame that begins and ends
\* paused without a reset, a resize or a method switch leaves the strategy
\* and its particles as they were.
C27_PausedFramesFreeze ==
    [][/\ last_op'.flag => ~is_paused(simulation)
       /\ (/\ is_paused(simulation)
           /\ is_paused(simulation')
           /\ last_op'.op # "reset"
           /\ last_op'.new_count = 0
           /\ get_method(simulation') = get_method(simulation))
              => /\ ~last_op'.flag
                 /\ simulation' = simulation]_vars

\* The gravity slider was moved in a frame that began paused: no update ran
C27_Witness ==
    /\ ~panicked
    /\ is_paused(simulation)
    /\ last_op.op = "gravity"
    /\ ~last_op.flag
    /\ app.gravity # 0
    /\ updates > 0

-----------------------------------------------------------------------------
(* The two halves of a ping-pong update *)

\* The halves that the recorded commands of the given kind name
Bound(work, command) ==
    {work[k][2] : k \in {j \in 1..Len(work) : work[j][1] = command}}

\* C28: an update that is not skipped binds one half as its read source and
\* the other half (1 - source) as its write target, and the current index
\* is 0 or 1 in every reachable state.
C28_SourceAndTargetDiffer ==
    /\ (tf # NoTf)
          => /\ tf.current_buffer_idx \in {0, 1}
             /\ (last_op.op = "update" /\ gpu_work # <<>>)
                   => \E source \in {0, 1} :
                         /\ Bound(gpu_work, "set_vertex_buffer_0") = {source}
                         /\ Bound(gpu_work, "set_vertex_buffer_1")
                                = {1 - source}
    /\ (fragment # NoFragment)
          => /\ fragment.current_texture \in {0, 1}
             /\ (last_op.op = "update" /\ gpu_work # <<>>)
                   => \E source \in {0, 1} :
                         /\ {render_bind_groups[group + 1] :
                                group \in Bound(gpu_work, "set_bind_group")}
                                = {source}
                         /\ Bound(gpu_work, "color_attachment") = {1 - source}

\* A transform feedback update that read half 1 and captured into half 0
C28_Witness ==
    /\ tf # NoTf
    /\ last_op.op = "update"
    /\ Bound(gpu_work, "set_vertex_buffer_0") = {1}
    /\ Bound(gpu_work, "set_vertex_buffer_1") = {0}
    /\ tf.current_buffer_idx = 0

-----------------------------------------------------------------------------
(* The release build tool (release/src/main.rs): one process that writes    *)
(* .cargo/config.toml, runs the builds its arguments ask for and ends.  The *)
(* builds are external commands and either succeed or fail.                 *)

\* the two contents the tool writes, and a content the user left there
MinimalConfig == "alias"
BuildTimeConfig == "alias+unstable"
UserConfig == "user"

\* Args, as far as main branches on them; target is whether --target is given
ReleaseArgs ==
    [wasm : BOOLEAN, wasm_rayon : BOOLEAN, target : BOOLEAN, native : BOOLEAN,
     ci : BOOLEAN]

\* the process at the start of main, before .cargo/config.toml is touched
ReleaseStart(args, config) ==
    [args |-> args, pc |-> "validate", config |-> config, guard |-> FALSE,
     build_time_written |-> FALSE, success |-> TRUE, exit_code |-> -1]

\* Drop for ConfigGuard: the minimal content is written over the file
ConfigGuardDrop(r) == [r EXCEPT !.config = MinimalConfig, !.guard = FALSE]

\* std::process::exit: the process ends at once, no destructor runs
process_exit(r, code) == [r EXCEPT !.pc = "exited", !.exit_code = code]

\* main returns: its locals are dropped, then the process ends
ReturnFromMain(r, code) ==
    process_exit(IF r.guard THEN ConfigGuardDrop(r) ELSE r, code)

ReleaseInit ==
    /\ \E args \in ReleaseArgs, config \in {MinimalConfig, UserConfig} :
          release = ReleaseStart(args, config)
    /\ simulation = <<>>
    /\ app = NoApp
    /\ tf = NoTf
    /\ fragment = NoFragment
    /\ last_written = 0
    /\ last_read = 0
    /\ last_op = Op("none", 0, 0, "", FALSE, NoParams)
    /\ gpu_work = <<>>
    /\ panicked = FALSE
    /\ updates = 0
    /\ frames = 0
    /\ draws = <<>>

\* the three checks of the arguments, each ending in exit(1)
ReleaseValidate ==
    /\ release.pc = "validate"
    /\ release' =
          IF \/ ~release.args.target /\ ~release.args.wasm
             \/ release.args.wasm_rayon /\ ~release.args.wasm
             \/ release.args.native /\ ~release.args.target
          THEN process_exit(release, 1)
          ELSE [release EXCEPT !.pc = "write_config"]
    /\ UNCHANGED <<simulation, app, tf, last_written, last_read, last_op,
                   gpu_work, panicked, updates, frames, fragment, draws>>

\* fs::write of the build-time content: on an error main returns it, on
\* success the guard is created
ReleaseWriteConfig ==
    /\ release.pc = "write_config"
    /\ \E written \in BOOLEAN :
          release' =
              IF written
              THEN [release EXCEPT !.config = BuildTimeConfig,
                                   !.build_time_written = TRUE,
                                   !.guard = TRUE,
                                   !.pc = "build_wasm"]
              ELSE ReturnFromMain(release, 1)
    /\ UNCHANGED <<simulation, app, tf, last_written, last_read, last_op,
                   gpu_work, panicked, updates, frames, fragment, draws>>

\* if args.wasm: build_wasm, whose error clears success
ReleaseBuildWasm ==
    /\ release.pc = "build_wasm"
    /\ \E built \in BOOLEAN :
          release' =
              IF release.args.wasm
              THEN [release EXCEPT !.success = built, !.pc = "build_native"]
              ELSE [release EXCEPT !.pc = "build_native"]
    /\ UNCHANGED <<simulation, app, tf, last_written, last_read, last_op,
                   gpu_work, panicked, updates, frames, fragment, draws>>

\* if success and a target is given: build_native, whose error clears success
ReleaseBuildNative ==
    /\ release.pc = "build_native"
    /\ \E built \in BOOLEAN :
          release' =
              IF release.success /\ release.args.target
              THEN [release EXCEPT !.success = built, !.pc = "finish"]
              ELSE [release EXCEPT !.pc = "finish"]
    /\ UNCHANGED <<simulation, app, tf, last_written, last_read, last_op,
                   gpu_work, panicked, updates, frames, fragment, draws>>

\* the end of main: Ok(()) is returned on success, exit(1) is called on
\* failure while _config_guard is still alive
ReleaseFinish ==
    /\ release.pc = "finish"
    /\ release' = IF release.success
                  THEN ReturnFromMain(release, 0)
                  ELSE process_exit(release, 1)
    /\ UNCHANGED <<simulation, app, tf, last_written, last_read, last_op,
                   gpu_work, panicked, updates, frames, fragment, draws>>

ReleaseNext ==
    \/ ReleaseValidate \/ ReleaseWriteConfig \/ ReleaseBuildWasm
    \/ ReleaseBuildNative \/ ReleaseFinish

\* One run of the release build tool over its arguments
ReleaseSpec == ReleaseInit /\ [][ReleaseNext]_vars

\* C30: when the process has ended after it wrote the build-time
\* .cargo/config.toml, the file holds the minimal alias-only content,
\* whether the builds succeeded or one of them failed.
C30_ConfigRestoredAtExit ==
    (release.pc = "exited" /\ release.build_time_written)
        => release.config = MinimalConfig

-----------------------------------------------------------------------------
(* The paused flag of the three strategies *)

\* Any of the three strategies under any sequence of trait calls
StrategySpec ==
    /\ Init \/ ComputeInit \/ TfInit
    /\ [][(tf = NoTf /\ Next) \/ (tf # NoTf /\ TfNext)]_vars

\* the strategy that the run is about
Strategy(sim, t) == IF t # NoTf THEN t ELSE sim

\* C29: a newly constructed strategy is not paused, set_paused(b) makes
\* is_paused() return b, and update, resize_buffer and reset leave the
\* paused flag as it was, for the CPU, the compute and the transform
\* feedback strategy.
C29_PausedFollowsSetPaused ==
    /\ [](last_op.op = "new" => ~is_paused(Strategy(simulation, tf)))
    /\ [][/\ (last_op'.op = "set_paused")
               => is_paused(Strategy(simulation', tf')) = last_op'.flag
          /\ (last_op'.op # "set_paused")
               => is_paused(Strategy(simulation', tf'))
                      = is_paused(Strategy(simulation, tf))]_vars

\* A paused transform feedback strategy with particles was reset and is
\* still paused
C29_Witness ==
    /\ tf # NoTf
    /\ last_op.op = "reset"
    /\ tf.particle_count > 0
    /\ gpu_work # <<>>
    /\ is_paused(tf)

====
